---- MODULE Spec2Model ----
(***************************************************************************)
(* steelix: a browser for cProfile statistics.                             *)
(*                                                                         *)
(* ProfileBrowser.construct_tree turns the flat pstats mapping into        *)
(* StatInfo objects linked parent -> children and returns the StatInfos    *)
(* nobody calls; StatNode walks the linked StatInfos lazily; StatWidget    *)
(* renders one row.                                                        *)
(*                                                                         *)
(* A location (filename, line_number, function_name) is modelled as a      *)
(* small integer, Python's tuple order being the integer order.  A         *)
(* StatInfo object is identified by the key it was constructed with.       *)
(***************************************************************************)
EXTENDS Integers, Sequences, FiniteSets, TLC

VARIABLES
    stats,        \* ProfileBrowser.stats: key -> value tuple
    order,        \* the order in which iterating self.stats yields its keys
    stat_infos,   \* ProfileBrowser.stat_infos: key -> StatInfo
    pc,           \* position inside ProfileBrowser.__init__ / construct_tree
    i,            \* index into order of the running for-loop
    parents,      \* keys of stat_info.parent_dictionary not yet visited
    error,        \* the exception that aborted the constructor, or "none"
    stat_infos_list, \* construct_tree's stat_infos.values(), by identity
    roots,        \* ProfileBrowser.roots (a list of StatInfo identities)
    views,        \* the StatNodes handed to the TreeListBoxes
    node,         \* a StatNode with its chain of parents, root first
    child_keys,   \* last result of StatNode.load_child_keys
    children,     \* children_dictionary handed to load_child_keys
    iter,         \* the order in which iterating that dictionary yields its keys
    name,         \* a filename, as a sequence of characters
    shown         \* what truncate_filename returned for it

vars == <<stats, order, stat_infos, pc, i, parents, error, stat_infos_list, roots, views,
          node, child_keys, children, iter, name, shown>>

buildVars == <<stats, order, stat_infos, i, parents, error, stat_infos_list, roots, views>>
nodeVars == <<node, child_keys, children, iter>>
nameVars == <<name, shown>>

\* ---------------------------------------------------------------- bounds

\* the locations a profile may mention
Locations == {1, 2, 3}
\* the largest number of caller entries in one profile
MaxEdges == 3
\* the timings a profile may hold; construct_tree and load_child_node never
\* read a timing
ProfileTimes == {1, 2}
\* load_child_keys alone: the number of children and their timings
MaxChildren == 3
MaxTime == 2
\* how deep a StatNode is expanded
MaxDepth == 3
\* the longest filename
MaxNameLen == 7

\* ---------------------------------------------------------------- helpers

\* all orders in which a dictionary with key set S can be iterated
Orders(S) ==
    {s \in [1 .. Cardinality(S) -> S] : \A a, b \in DOMAIN s : a # b => s[a] # s[b]}

Range(s) == {s[j] : j \in DOMAIN s}

\* ---------------------------------------------------------------- StatInfo

\* A pstats value tuple (cc, nc, tt, ct, callers) or, without callers,
\* (cc, nc, tt, ct): len is the tuple's length.  The profiler never measures
\* more time inside a function (tt) than inside it and its callees (ct).
ValueTuples ==
    {v \in [len : {4, 5}, tt : ProfileTimes, ct : ProfileTimes, callers : SUBSET Locations] :
        v.tt <= v.ct}

\* StatInfo.__init__
StatInfo(key_tuple, value_tuple) ==
    [ key_tuple           |-> key_tuple,
      total_time          |-> value_tuple.tt,
      cumulative_time     |-> value_tuple.ct,
      parent_none         |-> ~(value_tuple.len > 4),
      parent_dictionary   |-> IF value_tuple.len > 4 THEN value_tuple.callers ELSE {},
      children_dictionary |-> << >>,
      reference_count     |-> 0 ]

\* ---------------------------------------------------------------- ProfileBrowser

\* number of caller entries in a whole profile
RECURSIVE EdgeCount(_, _)
EdgeCount(st, S) ==
    IF S = {} THEN 0
    ELSE LET k == CHOOSE x \in S : TRUE
         IN Cardinality(st[k].callers) + EdgeCount(st, S \ {k})

\* the profiles pstats may hand over, each with its iteration order
Profiles(o) ==
    {st \in [Range(o) -> ValueTuples] :
        /\ \A k \in Range(o) : st[k].len = 4 => st[k].callers = {}
        /\ EdgeCount(st, Range(o)) <= MaxEdges}

Idle ==
    /\ node = << >>
    /\ child_keys = << >>
    /\ children = << >>
    /\ iter = << >>
    /\ name = << >>
    /\ shown = << >>

\* ProfileBrowser.__init__ up to the call of construct_tree
Init ==
    /\ order \in UNION {Orders(S) : S \in SUBSET Locations}
    /\ stats \in Profiles(order)
    /\ stat_infos = << >>
    /\ pc = "materialize"
    /\ i = 1
    /\ parents = {}
    /\ error = "none"
    /\ stat_infos_list = << >>
    /\ roots = << >>
    /\ views = << >>
    /\ Idle

\* construct_tree, first loop: one StatInfo per key of self.stats
Materialize ==
    /\ pc = "materialize"
    /\ i <= Len(order)
    /\ LET key == order[i]
       IN stat_infos' = (key :> StatInfo(key, stats[key])) @@ stat_infos
    /\ i' = i + 1
    /\ UNCHANGED <<stats, order, pc, parents, error, stat_infos_list, roots, views, nodeVars, nameVars>>

MaterializeEnd ==
    /\ pc = "materialize"
    /\ i > Len(order)
    /\ pc' = "link"
    /\ i' = 1
    /\ UNCHANGED <<stats, order, stat_infos, parents, error, stat_infos_list, roots, views, nodeVars, nameVars>>

\* construct_tree, second loop, `parents = stat_info.parent_dictionary.keys()`:
\* None has no keys()
LinkKey ==
    /\ pc = "link"
    /\ i <= Len(order)
    /\ LET stat_info == stat_infos[order[i]]
       IN IF stat_info.parent_none
          THEN /\ error' = "AttributeError"
               /\ pc' = "error"
               /\ UNCHANGED parents
          ELSE /\ parents' = stat_info.parent_dictionary
               /\ pc' = "link_parents"
               /\ UNCHANGED error
    /\ UNCHANGED <<stats, order, stat_infos, i, stat_infos_list, roots, views, nodeVars, nameVars>>

\* AddChild, the child counted but not stored with its parent
AddChildCountOnly(infos, parent, key) ==
    [infos EXCEPT ![key].reference_count = @ + 1]

\* AddChild, the child stored under its parent's key
AddChildUnderParentKey(infos, parent, key) ==
    [infos EXCEPT ![parent].children_dictionary = (parent :> infos[key].key_tuple) @@ @,
                  ![key].reference_count = @ + 1]

\* the body of `for parent in parents`
AddChild(infos, parent, key) ==
    [infos EXCEPT ![parent].children_dictionary = (key :> infos[key].key_tuple) @@ @,
                  ![key].reference_count = @ + 1]

\* LinkParent, a parent without a StatInfo passed over
LinkParentSkipsUnknown ==
    /\ pc = "link_parents"
    /\ \E parent \in parents :
        /\ parents' = parents \ {parent}
        /\ IF parent \in DOMAIN stat_infos
           THEN stat_infos' = AddChild(stat_infos, parent, order[i])
           ELSE UNCHANGED stat_infos
    /\ UNCHANGED <<stats, order, pc, error, i, stat_infos_list, roots, views, nodeVars, nameVars>>

LinkParent ==
    /\ pc = "link_parents"
    /\ \E parent \in parents :
        /\ parents' = parents \ {parent}
        /\ IF parent \in DOMAIN stat_infos
           THEN /\ stat_infos' = AddChild(stat_infos, parent, order[i])
                /\ UNCHANGED <<pc, error>>
           ELSE /\ error' = "KeyError"
                /\ pc' = "error"
                /\ UNCHANGED stat_infos
    /\ UNCHANGED <<stats, order, i, stat_infos_list, roots, views, nodeVars, nameVars>>

LinkKeyEnd ==
    /\ pc = "link_parents"
    /\ parents = {}
    /\ i' = i + 1
    /\ pc' = "link"
    /\ UNCHANGED <<stats, order, stat_infos, parents, error, stat_infos_list, roots, views, nodeVars, nameVars>>

LinkEnd ==
    /\ pc = "link"
    /\ i > Len(order)
    /\ pc' = "extract"
    /\ UNCHANGED <<stats, order, stat_infos, i, parents, error, stat_infos_list, roots, views, nodeVars, nameVars>>

\* root_nodes, a StatInfo with a single caller taken for a root as well
RECURSIVE root_nodes_one_caller(_, _)
root_nodes_one_caller(infos, list) ==
    IF list = << >> THEN << >>
    ELSE LET stat_info == infos[Head(list)]
             rest == root_nodes_one_caller(infos, Tail(list))
         IN IF stat_info.reference_count <= 1
            THEN <<stat_info.key_tuple>> \o rest
            ELSE rest

\* root_nodes, the list built back to front
RECURSIVE root_nodes_reversed(_, _)
root_nodes_reversed(infos, list) ==
    IF list = << >> THEN << >>
    ELSE LET stat_info == infos[Head(list)]
             rest == root_nodes_reversed(infos, Tail(list))
         IN IF stat_info.reference_count = 0
            THEN rest \o <<stat_info.key_tuple>>
            ELSE rest

\* [stat_info for stat_info in stat_infos_list if stat_info.reference_count == 0]
RECURSIVE root_nodes(_, _)
root_nodes(infos, list) ==
    IF list = << >> THEN << >>
    ELSE LET stat_info == infos[Head(list)]
             rest == root_nodes(infos, Tail(list))
         IN IF stat_info.reference_count = 0
            THEN <<stat_info.key_tuple>> \o rest
            ELSE rest

\* construct_tree's tail and `self.roots = self.construct_tree()`;
\* stat_infos.values() comes in the dictionary's own order
RootNodes ==
    /\ pc = "extract"
    /\ stat_infos_list' \in Orders(DOMAIN stat_infos)
    /\ roots' = root_nodes(stat_infos, stat_infos_list')
    /\ pc' = "views"
    /\ UNCHANGED <<stats, order, stat_infos, i, parents, error, views, nodeVars, nameVars>>

\* ---------------------------------------------------------------- StatNode

\* StatNode.__init__; parent is the position of the parent node in the
\* chain `node`, 0 standing for None
StatNode(stat_info, parent, depth) ==
    [ key       |-> stat_info.key_tuple,
      parent    |-> parent,
      stat_info |-> stat_info.key_tuple,
      depth     |-> depth ]

\* ProfileBrowser.__init__: one TreeListBox over StatNode(root) per root
TreeViews ==
    /\ pc = "views"
    /\ views' = [j \in 1 .. Len(roots) |-> StatNode(stat_infos[roots[j]], 0, 0)]
    /\ pc' = "browse"
    /\ UNCHANGED <<stats, order, stat_infos, i, parents, error, stat_infos_list, roots, nodeVars, nameVars>>

\* sort_key, reading the other timing
sort_key_cumulative(x) == x.cumulative_time

\* `child_list.sort(key=lambda x: x.total_time, reverse=True)`: the lambda
sort_key(x) == x.total_time

\* list.sort is stable, also with reverse=True: an item goes behind every
\* item whose key is at least its own
RECURSIVE sort_reverse(_)
sort_reverse(child_list) ==
    IF child_list = << >> THEN << >>
    ELSE LET n == Len(child_list)
             x == child_list[n]
             s == sort_reverse(SubSeq(child_list, 1, n - 1))
             p == Cardinality({j \in DOMAIN s : sort_key(s[j]) >= sort_key(x)})
         IN SubSeq(s, 1, p) \o <<x>> \o SubSeq(s, p + 1, Len(s))

\* StatNode.load_child_keys, the dictionary yielding its keys in order it
load_child_keys(dict, it) ==
    IF DOMAIN dict # {}
    THEN LET child_list == [j \in DOMAIN it |-> dict[it[j]]]
             sorted == sort_reverse(child_list)
         IN [j \in DOMAIN sorted |-> sorted[j].key_tuple]
    ELSE << >>

\* the tree walker starts at the StatNode of one of the tree views
Focus ==
    /\ pc \in {"browse", "keys"}
    /\ \E j \in DOMAIN views : node' = <<views[j]>>
    /\ pc' = "browse"
    /\ UNCHANGED <<stats, order, stat_infos, i, parents, error, stat_infos_list, roots, views,
                   child_keys, children, iter, nameVars>>

\* self.stat_info.children_dictionary of the node the walker stands on
ChildrenOf(n) ==
    LET dict == stat_infos[n.stat_info].children_dictionary
    IN [k \in DOMAIN dict |-> stat_infos[dict[k]]]

LoadChildKeys ==
    /\ pc = "browse"
    /\ node # << >>
    /\ children' = ChildrenOf(node[Len(node)])
    /\ \E it \in Orders(DOMAIN children') :
        /\ iter' = it
        /\ child_keys' = load_child_keys(children', it)
    /\ pc' = "keys"
    /\ UNCHANGED <<stats, order, stat_infos, i, parents, error, stat_infos_list, roots, views, node, nameVars>>

\* load_child_node, the child left at its parent's depth
load_child_node_same_depth(self, at, key) ==
    LET child == stat_infos[stat_infos[self.stat_info].children_dictionary[key]]
    IN StatNode(child, at, self.depth)

\* StatNode.load_child_node for a key of the children dictionary; self is
\* the node at position at of the chain
load_child_node(self, at, key) ==
    LET child == stat_infos[stat_infos[self.stat_info].children_dictionary[key]]
    IN StatNode(child, at, self.depth + 1)

\* StatNode.load_child_node, called with a key of load_child_keys (a key
\* tuple, never None, for which the method returns None and makes no node);
\* `children[key]` raises for a key the dictionary lacks
LoadChildNode ==
    /\ pc = "keys"
    /\ node[Len(node)].depth < MaxDepth
    /\ \E key \in Range(child_keys) :
        LET self == node[Len(node)]
            dict == stat_infos[self.stat_info].children_dictionary
        IN IF key \in DOMAIN dict
           THEN /\ node' = Append(node, load_child_node(self, Len(node), key))
                /\ pc' = "browse"
                /\ UNCHANGED error
           ELSE /\ error' = "KeyError"
                /\ pc' = "error"
                /\ UNCHANGED node
    /\ UNCHANGED <<stats, order, stat_infos, i, parents, stat_infos_list, roots, views,
                   child_keys, children, iter, nameVars>>

\* StatNode.load_parent
LoadParent ==
    /\ pc \in {"browse", "keys"}
    /\ node # << >>
    /\ node[Len(node)].parent # 0
    /\ node' = SubSeq(node, 1, node[Len(node)].parent)
    /\ pc' = "browse"
    /\ UNCHANGED <<stats, order, stat_infos, i, parents, error, stat_infos_list, roots, views,
                   child_keys, children, iter, nameVars>>

Next ==
    \/ Materialize
    \/ MaterializeEnd
    \/ LinkKey
    \/ LinkParent
    \/ LinkKeyEnd
    \/ LinkEnd
    \/ RootNodes
    \/ TreeViews
    \/ Focus
    \/ LoadChildKeys
    \/ LoadChildNode
    \/ LoadParent

Spec == Init /\ [][Next]_vars

\* ---------------------------------------------------------------- load_child_keys alone

\* The children_dictionary of one StatInfo after construct_tree: the
\* StatInfos of the functions that name it as a caller (location 0 here), each
\* with any timings.
ChildInfo(key, tt, ct) ==
    [StatInfo(key, [len |-> 5, tt |-> tt, ct |-> ct, callers |-> {0}])
        EXCEPT !.reference_count = 1]

InitKeys ==
    /\ \E S \in SUBSET (1 .. MaxChildren) :
       \E tt \in [S -> 1 .. MaxTime], ct \in [S -> 1 .. MaxTime] :
          /\ \A k \in S : tt[k] <= ct[k]
          /\ children = [k \in S |-> ChildInfo(k, tt[k], ct[k])]
    /\ pc = "children"
    /\ iter = << >>
    /\ child_keys = << >>
    /\ node = << >>
    /\ stats = << >> /\ order = << >> /\ stat_infos = << >>
    /\ i = 1 /\ parents = {} /\ error = "none"
    /\ stat_infos_list = << >> /\ roots = << >> /\ views = << >>
    /\ name = << >> /\ shown = << >>

ChildKeys ==
    /\ pc = "children"
    /\ \E it \in Orders(DOMAIN children) :
        /\ iter' = it
        /\ child_keys' = load_child_keys(children, it)
    /\ pc' = "sorted"
    /\ UNCHANGED <<buildVars, node, children, nameVars>>

NextKeys == ChildKeys

SpecKeys == InitKeys /\ [][NextKeys]_vars

\* ---------------------------------------------------------------- StatWidget

\* name.split('/')
RECURSIVE split(_)
split(s) ==
    IF \A j \in DOMAIN s : s[j] # "/" THEN <<s>>
    ELSE LET p == CHOOSE j \in DOMAIN s :
                     /\ s[j] = "/"
                     /\ \A h \in 1 .. j - 1 : s[h] # "/"
         IN <<SubSeq(s, 1, p - 1)>> \o split(SubSeq(s, p + 1, Len(s)))

\* "/".join(parts)
RECURSIVE join(_)
join(parts) ==
    IF parts = << >> THEN << >>
    ELSE IF Len(parts) = 1 THEN parts[1]
    ELSE parts[1] \o <<"/">> \o join(Tail(parts))

TRAIL_LENGTH == 3

\* StatWidget.truncate_filename
truncate_filename(n) ==
    LET parts_split == split(n)
    IN IF Len(parts_split) > TRAIL_LENGTH
       THEN <<".", ".", ".", "/">>
            \o join(SubSeq(parts_split, Len(parts_split) - TRAIL_LENGTH + 1, Len(parts_split)))
       ELSE n

Chars == {"/", "a", "b"}

\* filenames: no empty directory name, no trailing slash
Filenames ==
    {s \in UNION {[1 .. n -> Chars] : n \in 1 .. MaxNameLen} :
        /\ s[Len(s)] # "/"
        /\ \A j \in 1 .. Len(s) - 1 : ~(s[j] = "/" /\ s[j + 1] = "/")}

InitName ==
    /\ name \in Filenames
    /\ shown = << >>
    /\ pc = "name"
    /\ node = << >> /\ child_keys = << >> /\ children = << >> /\ iter = << >>
    /\ stats = << >> /\ order = << >> /\ stat_infos = << >>
    /\ i = 1 /\ parents = {} /\ error = "none"
    /\ stat_infos_list = << >> /\ roots = << >> /\ views = << >>

\* StatWidget.get_display_text: `filename = self.truncate_filename(stat_info.filename)`
GetDisplayText ==
    /\ pc = "name"
    /\ shown' = truncate_filename(name)
    /\ pc' = "shown"
    /\ UNCHANGED <<buildVars, nodeVars, name>>

NextName == GetDisplayText

SpecName == InitName /\ [][NextName]_vars

\* ---------------------------------------------------------------- properties

\* the link pass has run to its end
Linked == pc \in {"extract", "views", "browse", "keys"}
\* construct_tree has returned
Returned == pc \in {"views", "browse", "keys"}

\* the StatInfos stored in k's children_dictionary
Kids(k) ==
    {stat_infos[k].children_dictionary[c] : c \in DOMAIN stat_infos[k].children_dictionary}

\* everything reachable from S along children edges, S included
RECURSIVE ReachFrom(_)
ReachFrom(S) ==
    LET N == S \cup UNION {Kids(k) : k \in S}
    IN IF N = S THEN S ELSE ReachFrom(N)

\* reachable by one or more children edges
Descendants(k) == ReachFrom(Kids(k))

OnCycle(k) == k \in Descendants(k)

ZeroCount == {k \in DOMAIN stat_infos : stat_infos[k].reference_count = 0}

NoDuplicates(s) == \A a, b \in DOMAIN s : a # b => s[a] # s[b]

\* position of x in the sequence s
Pos(s, x) == CHOOSE j \in DOMAIN s : s[j] = x

HasUnknownCaller ==
    \E k \in DOMAIN stats : \E c \in stats[k].callers : c \notin DOMAIN stats

\* C1: once construct_tree has returned, its roots are exactly the StatInfos
\* with reference_count 0, each once, and every StatInfo reachable from a
\* root over one or more children edges has reference_count >= 1.
C1_RootsAreZeroCount ==
    Returned =>
        /\ Range(roots) = ZeroCount
        /\ NoDuplicates(roots)
        /\ \A j \in DOMAIN roots : \A r \in Descendants(roots[j]) :
               stat_infos[r].reference_count >= 1

C1_Witness ==
    /\ Returned
    /\ Len(roots) = 2
    /\ \E j \in DOMAIN roots : Descendants(roots[j]) # {}

\* C2: a caller that is no key of the profile makes construct_tree raise: the
\* link pass never gets past the entry that names it, no later phase is
\* entered, and neither roots nor tree views come to exist.
C2_UnknownCallerFails ==
    HasUnknownCaller =>
        /\ pc \in {"materialize", "link", "link_parents", "error"}
        /\ roots = << >>
        /\ views = << >>
        /\ pc \in {"link", "link_parents"} =>
               \A j \in 1 .. i - 1 : stats[order[j]].callers \subseteq DOMAIN stats
        /\ pc = "link_parents" =>
               (stats[order[i]].callers \ parents) \subseteq DOMAIN stats
        /\ pc = "error" => error \in {"KeyError", "AttributeError"}
        /\ pc # "error" => ENABLED Next

C2_Witness ==
    /\ HasUnknownCaller
    /\ pc = "error"
    /\ error = "KeyError"
    /\ \E k \in DOMAIN stat_infos : stat_infos[k].reference_count > 0

\* C3 (as claimed): a profile whose callers are all known and which holds an
\* entry of only 4 elements is built without an error.
C3_FourTupleAccepted ==
    ((\E k \in DOMAIN stats : stats[k].len = 4) /\ ~HasUnknownCaller) => error = "none"

\* C4 (as claimed): when the profile has entries and none is left with
\* reference_count 0, construct_tree does not return normally.
C4_NoRootIsAnError ==
    (Returned /\ DOMAIN stat_infos # {} /\ ZeroCount = {}) => error # "none"

\* C5 (as claimed): load_child_keys returns the keys of the children
\* dictionary, each once, by descending cumulative_time, equal times by
\* ascending location.
C5_ByCumulativeTime ==
    pc = "sorted" =>
        /\ Range(child_keys) = DOMAIN children
        /\ NoDuplicates(child_keys)
        /\ \A a, b \in DOMAIN child_keys : a < b =>
               LET x == children[child_keys[a]]
                   y == children[child_keys[b]]
               IN \/ x.cumulative_time > y.cumulative_time
                  \/ x.cumulative_time = y.cumulative_time /\ x.key_tuple < y.key_tuple

\* C5 (amended): load_child_keys returns the keys of the children dictionary,
\* each once, by descending total_time; children of equal total_time keep the
\* order in which the dictionary is iterated; no children give the empty list.
C5_ByTotalTime ==
    pc = "sorted" =>
        /\ Range(child_keys) = DOMAIN children
        /\ NoDuplicates(child_keys)
        /\ \A a, b \in DOMAIN child_keys : a < b =>
               LET x == children[child_keys[a]]
                   y == children[child_keys[b]]
               IN \/ x.total_time > y.total_time
                  \/ /\ x.total_time = y.total_time
                     /\ Pos(iter, x.key_tuple) < Pos(iter, y.key_tuple)

C5_Witness ==
    /\ pc = "sorted"
    /\ Len(child_keys) = 3
    /\ children[child_keys[1]].total_time > children[child_keys[2]].total_time
    /\ children[child_keys[2]].total_time = children[child_keys[3]].total_time
    /\ child_keys[2] > child_keys[3]
    /\ children[child_keys[2]].cumulative_time < children[child_keys[3]].cumulative_time

\* C6 (as claimed): when construct_tree returns roots, the StatInfos
\* reachable from the roots together with those on a cycle are all of them.
C6_RootsAndCyclesCoverAll ==
    (Returned /\ roots # << >>) =>
        ReachFrom(Range(roots)) \cup {k \in DOMAIN stat_infos : OnCycle(k)} = DOMAIN stats

\* C6 (amended): when construct_tree returns, every StatInfo is reachable
\* over children edges from a root or from a StatInfo on a cycle.
C6_ReachableFromRootOrCycle ==
    Returned =>
        ReachFrom(Range(roots) \cup {k \in DOMAIN stat_infos : OnCycle(k)}) = DOMAIN stats

C6_Witness ==
    /\ Returned
    /\ roots # << >>
    /\ \E k \in DOMAIN stat_infos :
        /\ ~OnCycle(k)
        /\ k \notin ReachFrom(Range(roots))

\* C7: the chain of StatNodes from a root node down to the current node: the
\* first is the depth-0 node of a tree view; every later one was made by
\* load_child_node, which did not raise, wraps the StatInfo its parent's
\* children dictionary stores under its key, has the node before it as its
\* parent and a depth one larger.
C7_ChildNodes ==
    /\ node # << >> => error = "none"
    /\ \A j \in DOMAIN node :
        /\ node[j].depth = j - 1
        /\ node[j].parent = j - 1
        /\ j = 1 => node[j] \in Range(views)
        /\ j > 1 =>
              LET dict == stat_infos[node[j - 1].stat_info].children_dictionary
              IN /\ node[j].key \in DOMAIN dict
                 /\ node[j].stat_info = dict[node[j].key]
                 /\ node[j].key = stat_infos[node[j].stat_info].key_tuple
    /\ pc = "keys" => Range(child_keys) =
           DOMAIN stat_infos[node[Len(node)].stat_info].children_dictionary

C7_Witness ==
    /\ Len(node) = 3
    /\ node[3].depth = 2
    /\ node[3].stat_info # node[2].stat_info

\* C8 (as claimed): the roots come by descending cumulative_time.
C8_RootsByCumulativeTime ==
    Returned =>
        \A a, b \in DOMAIN roots : a < b =>
            stat_infos[roots[a]].cumulative_time >= stat_infos[roots[b]].cumulative_time

\* C8 (amended): the roots are the StatInfos with reference_count 0, each
\* once, in the order in which stat_infos.values() yields them.
C8_RootsInDictionaryOrder ==
    Returned =>
        /\ Range(roots) = ZeroCount
        /\ NoDuplicates(roots)
        /\ \A a, b \in DOMAIN roots : a < b =>
               Pos(stat_infos_list, roots[a]) < Pos(stat_infos_list, roots[b])

C8_Witness ==
    /\ Returned
    /\ Len(roots) = 2
    /\ stat_infos[roots[1]].cumulative_time < stat_infos[roots[2]].cumulative_time
    /\ Len(stat_infos_list) = 3
    /\ stat_infos_list[2] \notin Range(roots)

\* the directory and file names of a path: what lies between its slashes
RECURSIVE NonEmpty(_)
NonEmpty(parts) ==
    IF parts = << >> THEN << >>
    ELSE IF Head(parts) = << >> THEN NonEmpty(Tail(parts))
    ELSE <<Head(parts)>> \o NonEmpty(Tail(parts))

PathSegments(n) == NonEmpty(split(n))

\* C9 (as claimed): a filename of more than 3 path segments is shown as
\* ".../" and its last 3 segments, one of 3 or fewer is shown unchanged.
C9_TruncatedToThreeSegments ==
    pc = "shown" =>
        LET segs == PathSegments(name)
        IN IF Len(segs) > 3
           THEN shown = <<".", ".", ".", "/">> \o join(SubSeq(segs, Len(segs) - 2, Len(segs)))
           ELSE shown = name

\* C10: every StatInfo exists before the link pass starts, and when the link
\* pass has ended, p's children dictionary stores r under k exactly if k is
\* r's key and p is one of r's callers, and r's reference_count is the
\* number of r's callers.
C10_LinkPass ==
    /\ pc \in {"link", "link_parents"} => DOMAIN stat_infos = DOMAIN stats
    /\ pc = "materialize" =>
           \A k \in DOMAIN stat_infos :
               /\ stat_infos[k].reference_count = 0
               /\ stat_infos[k].children_dictionary = << >>
    /\ Linked =>
           /\ DOMAIN stat_infos = DOMAIN stats
           /\ \A p, r \in DOMAIN stat_infos : \A k \in Locations :
                  (k \in DOMAIN stat_infos[p].children_dictionary
                       /\ stat_infos[p].children_dictionary[k] = r)
                  <=> (k = r /\ p \in stats[r].callers)
           /\ \A r \in DOMAIN stat_infos :
                  stat_infos[r].reference_count = Cardinality(stats[r].callers)

C10_Witness ==
    /\ pc = "extract"
    /\ \E r \in DOMAIN stat_infos : stat_infos[r].reference_count = 2
    /\ \E p \in DOMAIN stat_infos : Cardinality(DOMAIN stat_infos[p].children_dictionary) = 2

====
